---- MODULE Spec2Model ----
(***************************************************************************)
(* A model of components/webext-storage/src/api.rs: the storage.local      *)
(* value-mutation logic (get / set / remove / clear) over a table holding  *)
(* one serialized JSON object per extension id, with its three quotas.     *)
(*                                                                         *)
(* Representation.                                                         *)
(*  - A string (a Rust String: a key, or a JSON string) is a sequence of   *)
(*    runs <<c, n>>: the Unicode code point c repeated n >= 1 times, no    *)
(*    two adjacent runs with the same code point.  "foo" is                *)
(*    << <<102,1>>, <<111,2>> >>.  Byte lengths are computed from the code *)
(*    points as UTF-8 and serde_json's escaping compute them.              *)
(*  - A JsonValue is a record tagged by t: "null", "bool", "number",       *)
(*    "string", "array", "object".  The payload of an object is the        *)
(*    sequence of its <<key, value>> entries, keys distinct, in the order  *)
(*    serde_json's Map iterates them.                                      *)
(*  - A JsonMap held by an operation (current, existing, result) is a      *)
(*    function from keys to JsonValues.                                    *)
(*  - Option<T> is <<>> (None) or <<x>> (Some(x)).                         *)
(***************************************************************************)
EXTENDS Integers, Sequences, FiniteSets, Bags, TLC

QUOTA_BYTES == 102400
QUOTA_BYTES_PER_ITEM == 8192
MAX_ITEMS == 512

None == <<>>
Some(x) == <<x>>

(***************************************************************************)
(* Strings                                                                 *)
(***************************************************************************)
\* The string of the code points of the tuple cs, as runs.
RECURSIVE StrFrom(_, _)
StrFrom(cs, i) ==
    IF i > Len(cs) THEN <<>>
    ELSE LET rest == StrFrom(cs, i + 1)
         IN  IF rest # <<>> /\ rest[1][1] = cs[i]
             THEN << <<cs[i], rest[1][2] + 1>> >> \o Tail(rest)
             ELSE << <<cs[i], 1>> >> \o rest
Str(cs) == StrFrom(cs, 1)

\* "c".repeat(n)
Repeat(c, n) == IF n = 0 THEN <<>> ELSE << <<c, n>> >>

\* The bytes of one code point in UTF-8 (str::bytes).
Utf8Len(c) == IF c < 128 THEN 1 ELSE IF c < 2048 THEN 2 ELSE IF c < 65536 THEN 3 ELSE 4

\* The bytes serde_json writes for one code point inside a string literal:
\* \" \\ \b \t \n \f \r take two, any other control character \u00XX, the rest
\* is written as it is.
EscapedLen(c) ==
    IF c \in {34, 92, 8, 9, 10, 12, 13} THEN 2
    ELSE IF c < 32 THEN 6
    ELSE Utf8Len(c)

\* k.bytes().count()
ByteCount(s) ==
    IF s = <<>> THEN 0
    ELSE BagCardinality([i \in 1..Len(s) |-> s[i][2] * Utf8Len(s[i][1])])

\* The length of the JSON string literal of s, quotes included.
StringLiteralLen(s) ==
    2 + (IF s = <<>> THEN 0
         ELSE BagCardinality([i \in 1..Len(s) |-> s[i][2] * EscapedLen(s[i][1])]))

(***************************************************************************)
(* JsonValue                                                               *)
(***************************************************************************)
JNull == [t |-> "null"]
JBool(b) == [t |-> "bool", b |-> b]
JNumber(n) == [t |-> "number", n |-> n]
JString(s) == [t |-> "string", s |-> s]
JArray(a) == [t |-> "array", a |-> a]
JObject(entries) == [t |-> "object", o |-> entries]

\* The JsonMap (a function) of a sequence of entries.
MapOf(entries) ==
    [k \in {entries[i][1] : i \in 1..Len(entries)} |->
        (CHOOSE e \in {entries[i] : i \in 1..Len(entries)} : e[1] = k)[2]]

EmptyMap == MapOf(<<>>)

\* Map::remove and Map::insert on a JsonMap.
MapRemove(m, k) == IF k \in DOMAIN m THEN [x \in DOMAIN m \ {k} |-> m[x]] ELSE m
MapInsert(m, k, v) == (k :> v) @@ m
MapLen(m) == Cardinality(DOMAIN m)

\* The decimal digits of a natural number.
RECURSIVE DecLen(_)
DecLen(n) == IF n < 10 THEN 1 ELSE 1 + DecLen(n \div 10)

\* v.to_string().bytes().count(): the length of serde_json's compact text of v.
RECURSIVE ToStringLen(_)
ToStringLen(v) ==
    CASE v.t = "null" -> 4
      [] v.t = "bool" -> IF v.b THEN 4 ELSE 5
      [] v.t = "number" -> IF v.n < 0 THEN 1 + DecLen(-v.n) ELSE DecLen(v.n)
      [] v.t = "string" -> StringLiteralLen(v.s)
      [] v.t = "array" ->
           IF v.a = <<>> THEN 2
           ELSE 2 + BagCardinality([i \in 1..Len(v.a) |-> 1 + ToStringLen(v.a[i])]) - 1
      [] v.t = "object" ->
           IF v.o = <<>> THEN 2
           ELSE 2 + BagCardinality([i \in 1..Len(v.o) |->
                        StringLiteralLen(v.o[i][1]) + 1 + ToStringLen(v.o[i][2]) + 1]) - 1

\* JsonValue::Object(m).to_string().bytes().count() for a JsonMap m.
MapToStringLen(m) ==
    IF DOMAIN m = {} THEN 2
    ELSE 2 + BagCardinality([k \in DOMAIN m |->
                 StringLiteralLen(k) + 1 + ToStringLen(m[k]) + 1]) - 1

(***************************************************************************)
(* The table moz_extension_data: conn maps each guid to None (no row) or   *)
(* Some(text), text being the data column.  A text is modelled by what     *)
(* serde_json::from_str makes of it: [t |-> "object", m |-> the JsonMap]   *)
(* for the text of an object, a text tagged with another JsonValue type    *)
(* for valid JSON that is no object, and [t |-> "invalid"] for a text      *)
(* that is not JSON.  to_string followed by from_str gives back the same   *)
(* JsonValue for every value of this model (integers, strings, arrays and  *)
(* objects of them), so the text of an object is identified by its map.    *)
(***************************************************************************)
Ok(x) == [ok |-> TRUE, val |-> x]
Err(e) == [ok |-> FALSE, err |-> e]

ObjectText(m) == [t |-> "object", m |-> m]

get_from_db(conn, ext_guid) ==
    IF conn[ext_guid] = None THEN Ok(None)
    ELSE LET s == conn[ext_guid][1]
         IN  CASE s.t = "invalid" -> Err("JsonError")
               [] s.t = "object" -> Ok(Some(s.m))
               [] OTHER -> Ok(None)

\* Mutant: the total quota refuses a text of exactly QUOTA_BYTES bytes.
TotalBytesExceeded_Inclusive(m) == MapToStringLen(m) >= QUOTA_BYTES

\* bytes.len() > QUOTA_BYTES
TotalBytesExceeded(m) == MapToStringLen(m) > QUOTA_BYTES

\* Mutant: the row is written before the quota is checked.
save_to_db_WriteFirst(conn, ext_guid, val) ==
    [conn |-> [conn EXCEPT ![ext_guid] = Some(ObjectText(val))],
     res |-> IF MapToStringLen(val) > QUOTA_BYTES THEN Err("TotalBytes") ELSE Ok(None)]

\* val is the JsonMap of the JsonValue::Object handed in.
save_to_db(conn, ext_guid, val) ==
    IF TotalBytesExceeded(val)
    THEN [conn |-> conn, res |-> Err("TotalBytes")]
    ELSE [conn |-> [conn EXCEPT ![ext_guid] = Some(ObjectText(val))], res |-> Ok(None)]

\* A delete without its WHERE clause.
remove_from_db_DeleteAll(conn, ext_guid) ==
    [conn |-> [id \in DOMAIN conn |-> None], res |-> Ok(None)]

\* A delete that leaves the row in place.
remove_from_db_NoDelete(conn, ext_guid) ==
    [conn |-> conn, res |-> Ok(None)]

remove_from_db(conn, ext_guid) ==
    [conn |-> [conn EXCEPT ![ext_guid] = None], res |-> Ok(None)]

StorageValueChange(old_value, new_value) ==
    [old_value |-> old_value, new_value |-> new_value]

(***************************************************************************)
(* set                                                                     *)
(***************************************************************************)
\* Mutant: the item count is compared with > instead of >=.
MaxItemsReached_OffByOne(current) == MapLen(current) > MAX_ITEMS

\* current.len() >= MAX_ITEMS
MaxItemsReached(current) == MapLen(current) >= MAX_ITEMS

\* Mutant: the item size is compared with > instead of >=.
ItemBytesExceeded_Exclusive(k, v) == ByteCount(k) + ToStringLen(v) > QUOTA_BYTES_PER_ITEM

\* k.bytes().count() + v.to_string().bytes().count() >= QUOTA_BYTES_PER_ITEM
ItemBytesExceeded(k, v) == ByteCount(k) + ToStringLen(v) >= QUOTA_BYTES_PER_ITEM

\* Mutant: the item count is taken before the key's old entry is removed.
SetStep_CountBeforeRemove(st, k, v) ==
    LET old_value == IF k \in DOMAIN st.current THEN Some(st.current[k]) ELSE None
        removed == MapRemove(st.current, k)
    IN  IF MapLen(st.current) >= MAX_ITEMS
        THEN [err |-> "MaxItems", current |-> removed, changes |-> st.changes]
        ELSE IF ByteCount(k) + ToStringLen(v) >= QUOTA_BYTES_PER_ITEM
        THEN [err |-> "ItemBytes", current |-> removed, changes |-> st.changes]
        ELSE [err |-> "none",
              current |-> MapInsert(removed, k, v),
              changes |-> MapInsert(st.changes, k, StorageValueChange(old_value, Some(v)))]

\* Mutant: a change whose new value equals the stored one is left out.
SetStep_SkipUnchanged(st, k, v) ==
    LET old_value == IF k \in DOMAIN st.current THEN Some(st.current[k]) ELSE None
        removed == MapRemove(st.current, k)
    IN  IF MapLen(removed) >= MAX_ITEMS
        THEN [err |-> "MaxItems", current |-> removed, changes |-> st.changes]
        ELSE IF ByteCount(k) + ToStringLen(v) >= QUOTA_BYTES_PER_ITEM
        THEN [err |-> "ItemBytes", current |-> removed, changes |-> st.changes]
        ELSE [err |-> "none",
              current |-> MapInsert(removed, k, v),
              changes |-> IF old_value = Some(v) THEN st.changes
                          ELSE MapInsert(st.changes, k, StorageValueChange(old_value, Some(v)))]

\* One pass of the body of set's for loop, for the entry <<k, v>>, on
\* st = [err, current, changes]; err # "none" is the early return.
\* One iteration that checks the item's size before the number of items.
SetStep_SizeFirst(st, k, v) ==
    LET old_value == IF k \in DOMAIN st.current THEN Some(st.current[k]) ELSE None
        removed == MapRemove(st.current, k)
    IN  IF ItemBytesExceeded(k, v)
        THEN [err |-> "ItemBytes", current |-> removed, changes |-> st.changes]
        ELSE IF MaxItemsReached(removed)
        THEN [err |-> "MaxItems", current |-> removed, changes |-> st.changes]
        ELSE [err |-> "none", current |-> MapInsert(removed, k, v),
              changes |-> MapInsert(st.changes, k, StorageValueChange(old_value, Some(v)))]

SetStep(st, k, v) ==
    LET old_value == IF k \in DOMAIN st.current THEN Some(st.current[k]) ELSE None
        removed == MapRemove(st.current, k)
    IN  IF MaxItemsReached(removed)
        THEN [err |-> "MaxItems", current |-> removed, changes |-> st.changes]
        ELSE IF ItemBytesExceeded(k, v)
        THEN [err |-> "ItemBytes", current |-> removed, changes |-> st.changes]
        ELSE [err |-> "none",
              current |-> MapInsert(removed, k, v),
              changes |-> MapInsert(st.changes, k, StorageValueChange(old_value, Some(v)))]

\* The for loop over val_map[lo..hi], in order, stopping at the first error.
\* The range is halved so that the evaluation depth stays logarithmic in the
\* number of entries; the entries are still processed one by one, left to right.
RECURSIVE SetLoop(_, _, _, _)
SetLoop(st, val_map, lo, hi) ==
    IF lo > hi THEN st
    ELSE IF lo = hi THEN SetStep(st, val_map[lo][1], val_map[lo][2])
    ELSE LET mid == (lo + hi) \div 2
             left == SetLoop(st, val_map, lo, mid)
         IN  IF left.err # "none" THEN left
             ELSE SetLoop(left, val_map, mid + 1, hi)

\* Mutant: the loop starts from an empty map instead of the stored one.
set_NoMerge(conn, ext_guid, val) ==
    LET val_map == IF val.t = "object" THEN val.o ELSE <<>>
        loaded == get_from_db(conn, ext_guid)
    IN  IF ~loaded.ok THEN [conn |-> conn, res |-> loaded]
        ELSE
        LET current == EmptyMap
            looped == SetLoop([err |-> "none", current |-> current, changes |-> EmptyMap],
                              val_map, 1, Len(val_map))
        IN  IF looped.err # "none" THEN [conn |-> conn, res |-> Err(looped.err)]
            ELSE LET saved == save_to_db(conn, ext_guid, looped.current)
                 IN  [conn |-> saved.conn,
                      res |-> IF ~saved.res.ok THEN saved.res ELSE Ok(looped.changes)]

\* A set that starts from the empty map whatever was loaded.
set_after_load_IgnoresLoaded(loaded, conn, ext_guid, val) ==
    LET val_map == IF val.t = "object" THEN val.o ELSE <<>>
    IN  IF ~loaded.ok THEN [conn |-> conn, res |-> loaded]
        ELSE
        LET looped == SetLoop([err |-> "none", current |-> EmptyMap, changes |-> EmptyMap],
                              val_map, 1, Len(val_map))
        IN  IF looped.err # "none" THEN [conn |-> conn, res |-> Err(looped.err)]
            ELSE LET saved == save_to_db(conn, ext_guid, looped.current)
                 IN  [conn |-> saved.conn,
                      res |-> IF ~saved.res.ok THEN saved.res ELSE Ok(looped.changes)]

\* set from the result of its get_from_db call on: loaded is that result, conn
\* the table the save is made on.
set_after_load(loaded, conn, ext_guid, val) ==
    LET val_map == IF val.t = "object" THEN val.o ELSE <<>>
    IN  IF ~loaded.ok THEN [conn |-> conn, res |-> loaded]
        ELSE
        LET current == IF loaded.val = None THEN EmptyMap ELSE loaded.val[1]
            looped == SetLoop([err |-> "none", current |-> current, changes |-> EmptyMap],
                              val_map, 1, Len(val_map))
        IN  IF looped.err # "none" THEN [conn |-> conn, res |-> Err(looped.err)]
            ELSE LET saved == save_to_db(conn, ext_guid, looped.current)
                 IN  [conn |-> saved.conn,
                      res |-> IF ~saved.res.ok THEN saved.res ELSE Ok(looped.changes)]

set(conn, ext_guid, val) ==
    set_after_load(get_from_db(conn, ext_guid), conn, ext_guid, val)

(***************************************************************************)
(* get_keys, get, remove, clear                                            *)
(***************************************************************************)
\* The keys to return, each with its Option<default>.
get_keys(keys) ==
    CASE keys.t = "string" -> << <<keys.s, None>> >>
      [] keys.t = "array" ->
           LET strs == SelectSeq(keys.a, LAMBDA v : v.t = "string")
           IN  [i \in 1..Len(strs) |-> <<strs[i].s, None>>]
      [] keys.t = "object" ->
           [i \in 1..Len(keys.o) |-> <<keys.o[i][1], Some(keys.o[i][2])>>]
      [] OTHER -> <<>>

\* Mutant: a null default counts as no default.
RECURSIVE GetLoop_NullDefaultOmitted(_, _, _)
GetLoop_NullDefaultOmitted(st, keys_and_defaults, i) ==
    IF i > Len(keys_and_defaults) THEN st
    ELSE LET key == keys_and_defaults[i][1]
             maybe_default == keys_and_defaults[i][2]
         IN  IF key \in DOMAIN st.existing
             THEN GetLoop_NullDefaultOmitted(
                      [existing |-> MapRemove(st.existing, key),
                       result |-> MapInsert(st.result, key, st.existing[key])],
                      keys_and_defaults, i + 1)
             ELSE IF maybe_default # None /\ maybe_default # Some(JNull)
             THEN GetLoop_NullDefaultOmitted(
                      [existing |-> st.existing,
                       result |-> MapInsert(st.result, key, maybe_default[1])],
                      keys_and_defaults, i + 1)
             ELSE GetLoop_NullDefaultOmitted(st, keys_and_defaults, i + 1)

\* get's for loop from the i-th of keys_and_defaults on; st = [existing, result].
RECURSIVE GetLoop(_, _, _)
GetLoop(st, keys_and_defaults, i) ==
    IF i > Len(keys_and_defaults) THEN st
    ELSE LET key == keys_and_defaults[i][1]
             maybe_default == keys_and_defaults[i][2]
         IN  IF key \in DOMAIN st.existing
             THEN GetLoop([existing |-> MapRemove(st.existing, key),
                           result |-> MapInsert(st.result, key, st.existing[key])],
                          keys_and_defaults, i + 1)
             ELSE IF maybe_default # None
             THEN GetLoop([existing |-> st.existing,
                           result |-> MapInsert(st.result, key, maybe_default[1])],
                          keys_and_defaults, i + 1)
             ELSE GetLoop(st, keys_and_defaults, i + 1)

\* Mutant: without a record, an object key specification is answered with its defaults.
get_DefaultsWhenNoRecord(conn, ext_guid, keys) ==
    LET maybe_existing == get_from_db(conn, ext_guid)
    IN  IF ~maybe_existing.ok THEN [conn |-> conn, res |-> maybe_existing]
        ELSE IF maybe_existing.val = None
        THEN [conn |-> conn,
              res |-> Ok(IF keys.t = "object" THEN MapOf(keys.o) ELSE EmptyMap)]
        ELSE LET existing == maybe_existing.val[1]
             IN  IF keys = JNull THEN [conn |-> conn, res |-> Ok(existing)]
                 ELSE [conn |-> conn,
                       res |-> Ok(GetLoop([existing |-> existing, result |-> EmptyMap],
                                          get_keys(keys), 1).result)]

\* A get that writes back the working copy its loop took the found keys out of.
get_SavesWorkingCopy(conn, ext_guid, keys) ==
    LET maybe_existing == get_from_db(conn, ext_guid)
    IN  IF ~maybe_existing.ok THEN [conn |-> conn, res |-> maybe_existing]
        ELSE IF maybe_existing.val = None THEN [conn |-> conn, res |-> Ok(EmptyMap)]
        ELSE LET existing == maybe_existing.val[1]
             IN  IF keys = JNull THEN [conn |-> conn, res |-> Ok(existing)]
                 ELSE LET looped == GetLoop([existing |-> existing, result |-> EmptyMap],
                                            get_keys(keys), 1)
                      IN  [conn |-> save_to_db(conn, ext_guid, looped.existing).conn,
                           res |-> Ok(looped.result)]

\* The result is the JsonMap of the JsonValue::Object returned.
get(conn, ext_guid, keys) ==
    LET maybe_existing == get_from_db(conn, ext_guid)
    IN  IF ~maybe_existing.ok THEN [conn |-> conn, res |-> maybe_existing]
        ELSE IF maybe_existing.val = None THEN [conn |-> conn, res |-> Ok(EmptyMap)]
        ELSE LET existing == maybe_existing.val[1]
             IN  IF keys = JNull THEN [conn |-> conn, res |-> Ok(existing)]
                 ELSE [conn |-> conn,
                       res |-> Ok(GetLoop([existing |-> existing, result |-> EmptyMap],
                                          get_keys(keys), 1).result)]

\* Mutant: the change is recorded but the key stays in the map that is saved.
RECURSIVE RemoveLoop_KeepsKey(_, _, _)
RemoveLoop_KeepsKey(st, keys_and_defs, i) ==
    IF i > Len(keys_and_defs) THEN st
    ELSE LET key == keys_and_defs[i][1]
         IN  IF key \in DOMAIN st.existing
             THEN RemoveLoop_KeepsKey(
                      [existing |-> st.existing,
                       result |-> MapInsert(st.result, key,
                                      StorageValueChange(Some(st.existing[key]), None))],
                      keys_and_defs, i + 1)
             ELSE RemoveLoop_KeepsKey(st, keys_and_defs, i + 1)

\* remove's for loop from the i-th of keys_and_defs on; st = [existing, result].
RECURSIVE RemoveLoop(_, _, _)
RemoveLoop(st, keys_and_defs, i) ==
    IF i > Len(keys_and_defs) THEN st
    ELSE LET key == keys_and_defs[i][1]
         IN  IF key \in DOMAIN st.existing
             THEN RemoveLoop([existing |-> MapRemove(st.existing, key),
                              result |-> MapInsert(st.result, key,
                                  StorageValueChange(Some(st.existing[key]), None))],
                             keys_and_defs, i + 1)
             ELSE RemoveLoop(st, keys_and_defs, i + 1)

\* A remove that reads a null key specification as every key, the way get does.
remove_NullRemovesAll(conn, ext_guid, keys) ==
    LET loaded == get_from_db(conn, ext_guid)
    IN  IF ~loaded.ok THEN [conn |-> conn, res |-> loaded]
        ELSE IF loaded.val = None THEN [conn |-> conn, res |-> Ok(EmptyMap)]
        ELSE LET existing == loaded.val[1]
                 looped == IF keys = JNull
                           THEN [existing |-> EmptyMap,
                                 result |-> [key \in DOMAIN existing |->
                                     StorageValueChange(Some(existing[key]), None)]]
                           ELSE RemoveLoop([existing |-> existing, result |-> EmptyMap],
                                           get_keys(keys), 1)
             IN  IF DOMAIN looped.result # {}
                 THEN LET saved == save_to_db(conn, ext_guid, looped.existing)
                      IN  [conn |-> saved.conn,
                           res |-> IF ~saved.res.ok THEN saved.res ELSE Ok(looped.result)]
                 ELSE [conn |-> conn, res |-> Ok(looped.result)]

\* A remove that deletes the row once its last key is gone.
remove_DeletesEmptied(conn, ext_guid, keys) ==
    LET loaded == get_from_db(conn, ext_guid)
    IN  IF ~loaded.ok THEN [conn |-> conn, res |-> loaded]
        ELSE IF loaded.val = None THEN [conn |-> conn, res |-> Ok(EmptyMap)]
        ELSE LET looped == RemoveLoop([existing |-> loaded.val[1], result |-> EmptyMap],
                                      get_keys(keys), 1)
             IN  IF DOMAIN looped.result = {} THEN [conn |-> conn, res |-> Ok(looped.result)]
                 ELSE IF DOMAIN looped.existing = {}
                 THEN [conn |-> remove_from_db(conn, ext_guid).conn, res |-> Ok(looped.result)]
                 ELSE LET saved == save_to_db(conn, ext_guid, looped.existing)
                      IN  [conn |-> saved.conn,
                           res |-> IF ~saved.res.ok THEN saved.res ELSE Ok(looped.result)]

\* remove from the result of its get_from_db call on.
remove_after_load(loaded, conn, ext_guid, keys) ==
    IF ~loaded.ok THEN [conn |-> conn, res |-> loaded]
    ELSE IF loaded.val = None THEN [conn |-> conn, res |-> Ok(EmptyMap)]
    ELSE LET looped == RemoveLoop([existing |-> loaded.val[1], result |-> EmptyMap],
                                  get_keys(keys), 1)
         IN  IF DOMAIN looped.result # {}
             THEN LET saved == save_to_db(conn, ext_guid, looped.existing)
                  IN  [conn |-> saved.conn,
                       res |-> IF ~saved.res.ok THEN saved.res ELSE Ok(looped.result)]
             ELSE [conn |-> conn, res |-> Ok(looped.result)]

remove(conn, ext_guid, keys) ==
    remove_after_load(get_from_db(conn, ext_guid), conn, ext_guid, keys)

\* clear from the result of its get_from_db call on.
clear_after_load(loaded, conn, ext_guid) ==
    IF ~loaded.ok THEN [conn |-> conn, res |-> loaded]
    ELSE IF loaded.val = None THEN [conn |-> conn, res |-> Ok(EmptyMap)]
    ELSE LET existing == loaded.val[1]
             result == [key \in DOMAIN existing |->
                           StorageValueChange(Some(existing[key]), None)]
             removed == remove_from_db(conn, ext_guid)
         IN  [conn |-> removed.conn,
              res |-> IF ~removed.res.ok THEN removed.res ELSE Ok(result)]

clear(conn, ext_guid) ==
    clear_after_load(get_from_db(conn, ext_guid), conn, ext_guid)

(***************************************************************************)
(* Inputs                                                                  *)
(***************************************************************************)
\* format!("{}", i) for i >= 0, as code points.
RECURSIVE Digits(_)
Digits(i) == IF i < 10 THEN <<48 + i>> ELSE Digits(i \div 10) \o <<48 + (i % 10)>>

kFoo == Str(<<102, 111, 111>>)                        \* "foo"
kOther == Str(<<111, 116, 104, 101, 114>>)            \* "other"
kK == Str(<<107>>)                                    \* "k"
kMissing == Str(<<109, 105, 115, 115, 105, 110, 103>>) \* "missing"
kXX == Str(<<120, 120>>)                              \* "xx": 2 bytes
kXE == Str(<<120, 233>>)                              \* "xé": 2 characters, 3 bytes
sBar == Str(<<98, 97, 114>>)                          \* "bar"
sNew == Str(<<110, 101, 119>>)                        \* "new"
sAlsoNew == Str(<<97, 108, 115, 111, 32, 110, 101, 119>>) \* "also new"
sYo == Str(<<121, 111>>)                              \* "yo"

\* format!("key-{}", i) and format!("value-{}", i) of test_quota_maxitems.
BulkKey(i) == Str(<<107, 101, 121, 45>> \o Digits(i))
BulkValue(i) == Str(<<118, 97, 108, 117, 101, 45>> \o Digits(i))
\* One object with MAX_ITEMS distinct keys.
Bulk == JObject([i \in 1..MAX_ITEMS |-> <<BulkKey(i), JString(BulkValue(i))>>])

\* "x".repeat(QUOTA_BYTES_PER_ITEM - 5) of test_quota_bytesperitem: with its
\* quotes 3 bytes less than the limit, so a 2-byte key gives 8,191 and a 3-byte
\* key 8,192.
BigString == JString(Repeat(120, QUOTA_BYTES_PER_ITEM - 5))

\* An object of 13 items, each under the item limit, whose text is exactly
\* QUOTA_BYTES + extra bytes long: 12 items "t<i>" of 8,000 x's and an item
\* "fill" whose string takes what is left.
TotalKey(i) == Str(<<116>> \o Digits(i))
TotalBase == [i \in 1..12 |-> <<TotalKey(i), JString(Repeat(120, 8000))>>]
kFill == Str(<<102, 105, 108, 108>>)
TotalEntries(extra) ==
    LET rest == QUOTA_BYTES + extra - MapToStringLen(MapOf(TotalBase))
        \* a comma, the key's literal, a colon, the string's two quotes
        n == rest - (1 + StringLiteralLen(kFill) + 1 + 2)
    IN  Append(TotalBase, <<kFill, JString(Repeat(120, n))>>)
TotalExact == JObject(TotalEntries(0))
TotalOver == JObject(TotalEntries(1))

\* Values over the item limit for a key test_quota_maxitems stores, alone and
\* next to a key it does not store, in both orders.
OverExisting == JObject(<< <<BulkKey(1), BigString>> >>)
OverExistingThenNew == JObject(<< <<BulkKey(1), BigString>>, <<kXE, JNull>> >>)
NewThenOverExisting == JObject(<< <<kK, JNull>>, <<BulkKey(1), BigString>> >>)

ExtIds == {"x", "xyz"}

ObjectValues ==
    { JObject(<< <<kFoo, JString(sBar)>> >>),
      JObject(<< <<kFoo, JString(sNew)>>, <<kOther, JString(sAlsoNew)>> >>),
      JObject(<< <<kK, JNull>> >>),
      JObject(<< <<BulkKey(1), JString(BulkValue(1))>> >>),
      JObject(<< <<BulkKey(1), JString(sNew)>>, <<kK, JNull>> >>),
      JObject(<< <<kXX, BigString>> >>),
      JObject(<< <<kXE, BigString>> >>),
      JObject(<< <<kFoo, JString(sBar)>>, <<kXE, BigString>> >>),
      OverExisting,
      OverExistingThenNew,
      NewThenOverExisting,
      TotalExact,
      TotalOver }

NonObjectValues == { JNull, JNumber(7), JArray(<<JString(kFoo)>>) }

\* The values set is called with, per extension.  The MAX_ITEMS-key object is
\* set on a fresh record, as test_quota_maxitems builds it.
SetValues(c, id) ==
    IF id = "x"
    THEN ObjectValues \cup NonObjectValues \cup (IF c[id] = None THEN {Bulk} ELSE {})
    ELSE { JObject(<< <<kFoo, JString(sBar)>> >>) }

\* The key specifications get and remove are called with.
KeySpecs ==
    { JNull,
      JString(kFoo),
      JString(kMissing),
      JArray(<<JString(kFoo), JString(kOther)>>),
      JArray(<<JString(kFoo), JNumber(5), JString(kFoo)>>),
      JObject(<< <<kK, JNull>> >>),
      JObject(<< <<kFoo, JNull>>, <<kK, JString(sYo)>> >>),
      JBool(TRUE),
      JNumber(5) }

(***************************************************************************)
(* The state machine: conn is the table; last records the latest call (its *)
(* operation, arguments, the table before it and its result); mutated is   *)
(* the set of extension ids set, remove or clear was ever called for.      *)
(* calls, begun and done belong to callers whose calls are not one step:   *)
(* calls holds, per caller, the call it is in the middle of with what its  *)
(* get_from_db returned, begun counts the calls begun, done lists the      *)
(* latest two calls that returned.                                         *)
(***************************************************************************)
VARIABLES conn, last, mutated, calls, begun, done

vars == <<conn, last, mutated, calls, begun, done>>

Callers == {1, 2}
Idle == [pc |-> "idle"]

Call(op, id, arg, r) ==
    [op |-> op, id |-> id, arg |-> arg, before |-> conn, res |-> r.res]

Init ==
    /\ conn = [id \in ExtIds |-> None]
    /\ last = [op |-> "none", id |-> "x", arg |-> JNull, before |-> conn, res |-> Ok(EmptyMap)]
    /\ mutated = {}
    /\ calls = [p \in Callers |-> Idle]
    /\ begun = 0
    /\ done = <<>>

Set(id, val) ==
    LET r == set(conn, id, val)
    IN  /\ conn' = r.conn
        /\ last' = Call("set", id, val, r)
        /\ mutated' = mutated \cup {id}
        /\ UNCHANGED <<calls, begun, done>>

Get(id, keys) ==
    LET r == get(conn, id, keys)
    IN  /\ conn' = r.conn
        /\ last' = Call("get", id, keys, r)
        /\ UNCHANGED <<mutated, calls, begun, done>>

Remove(id, keys) ==
    LET r == remove(conn, id, keys)
    IN  /\ conn' = r.conn
        /\ last' = Call("remove", id, keys, r)
        /\ mutated' = mutated \cup {id}
        /\ UNCHANGED <<calls, begun, done>>

Clear(id) ==
    LET r == clear(conn, id)
    IN  /\ conn' = r.conn
        /\ last' = Call("clear", id, JNull, r)
        /\ mutated' = mutated \cup {id}
        /\ UNCHANGED <<calls, begun, done>>

Next ==
    \E id \in ExtIds :
        \/ \E val \in SetValues(conn, id) : Set(id, val)
        \/ \E keys \in KeySpecs : Get(id, keys)
        \/ \E keys \in KeySpecs : Remove(id, keys)
        \/ Clear(id)

Spec == Init /\ [][Next]_vars

(***************************************************************************)
(* A table whose rows were not all written by save_to_db: a row may hold   *)
(* the text of an object, the text of a JSON value of another type, or     *)
(* text that is no JSON.  The four operations are called on it with a few  *)
(* arguments each.                                                         *)
(***************************************************************************)
InvalidText == [t |-> "invalid"]
StoredRows ==
    { None,
      Some(ObjectText(MapOf(<< <<kFoo, JString(sBar)>> >>))),
      Some(JString(sBar)),
      Some(JArray(<<JString(kFoo)>>)),
      Some(InvalidText) }

StoredSetValues ==
    { JObject(<< <<kFoo, JString(sNew)>> >>), JObject(<< <<kK, JNull>> >>), JNull }
StoredKeySpecs == { JNull, JString(kFoo), JObject(<< <<kK, JString(sYo)>> >>) }

InitStored ==
    /\ conn \in [ExtIds -> StoredRows]
    /\ last = [op |-> "none", id |-> "x", arg |-> JNull, before |-> conn, res |-> Ok(EmptyMap)]
    /\ mutated = {}
    /\ calls = [p \in Callers |-> Idle]
    /\ begun = 0
    /\ done = <<>>

NextStored ==
    \E id \in ExtIds :
        \/ \E val \in StoredSetValues : Set(id, val)
        \/ \E keys \in StoredKeySpecs : Get(id, keys)
        \/ \E keys \in StoredKeySpecs : Remove(id, keys)
        \/ Clear(id)

SpecStored == InitStored /\ [][NextStored]_vars

(***************************************************************************)
(* Two callers on their own connections to the same table, no transaction  *)
(* around a call: a call is two steps, the get_from_db it starts with and  *)
(* the rest of it, and the steps of the two callers interleave.            *)
(***************************************************************************)
MaxRaceCalls == 2

\* A record one key short of MAX_ITEMS, and one that the "fill" entry of
\* TotalExact brings to QUOTA_BYTES exactly.
AlmostFull == MapOf(SubSeq(Bulk.o, 1, MAX_ITEMS - 1))
FillEntry == TotalEntries(0)[Len(TotalBase) + 1]
RaceRows ==
    { None,
      Some(ObjectText(MapOf(<< <<kFoo, JString(sBar)>> >>))),
      Some(ObjectText(AlmostFull)),
      Some(ObjectText(MapOf(TotalBase))) }

RaceIds == {"x"}
RaceCalls ==
    { [op |-> "set", arg |-> JObject(<< <<kFoo, JString(sNew)>> >>)],
      [op |-> "set", arg |-> JObject(<< <<kK, JNull>> >>)],
      [op |-> "set", arg |-> JObject(<< <<BulkKey(MAX_ITEMS), JString(BulkValue(MAX_ITEMS))>> >>)],
      [op |-> "set", arg |-> JObject(<<FillEntry>>)],
      [op |-> "remove", arg |-> JString(kFoo)],
      [op |-> "clear", arg |-> JNull] }

InitRace ==
    /\ \E row \in RaceRows : conn = [id \in ExtIds |-> IF id \in RaceIds THEN row ELSE None]
    /\ last = [op |-> "none", id |-> "x", arg |-> JNull, before |-> conn, res |-> Ok(EmptyMap)]
    /\ mutated = {id \in ExtIds : conn[id] # None}
    /\ calls = [p \in Callers |-> Idle]
    /\ begun = 0
    /\ done = <<>>

\* Caller p starts a call: its get_from_db.
Begin(p, id, c) ==
    /\ calls[p].pc = "idle"
    /\ begun < MaxRaceCalls
    /\ calls' = [calls EXCEPT ![p] = [pc |-> "loaded", op |-> c.op, id |-> id, arg |-> c.arg,
                                      loaded |-> get_from_db(conn, id)]]
    /\ begun' = begun + 1
    /\ UNCHANGED <<conn, last, mutated, done>>

\* Caller p's call runs from its get_from_db's return to its own return.  The
\* call is stale when the row is no longer what it loaded.
Finish(p) ==
    /\ calls[p].pc = "loaded"
    /\ LET c == calls[p]
           r == CASE c.op = "set" -> set_after_load(c.loaded, conn, c.id, c.arg)
                  [] c.op = "remove" -> remove_after_load(c.loaded, conn, c.id, c.arg)
                  [] c.op = "clear" -> clear_after_load(c.loaded, conn, c.id)
           returned == [by |-> p, op |-> c.op, id |-> c.id, arg |-> c.arg, res |-> r.res,
                        stale |-> get_from_db(conn, c.id) # c.loaded]
       IN  /\ conn' = r.conn
           /\ last' = Call(c.op, c.id, c.arg, r)
           /\ mutated' = mutated \cup {c.id}
           /\ done' = IF done = <<>> THEN <<returned>> ELSE <<done[Len(done)], returned>>
    /\ calls' = [calls EXCEPT ![p] = Idle]
    /\ UNCHANGED begun

NextRace ==
    \E p \in Callers :
        \/ \E id \in RaceIds, c \in RaceCalls : Begin(p, id, c)
        \/ Finish(p)

SpecRace == InitRace /\ [][NextRace]_vars

(***************************************************************************)
(* Vocabulary of the properties                                            *)
(***************************************************************************)
QuotaErrors == {"MaxItems", "ItemBytes", "TotalBytes"}

\* The record persisted for id in table c, as a JsonMap (empty when there is none).
HasRecord(c, id) == c[id] # None
RecordOf(c, id) == IF c[id] = None THEN EmptyMap ELSE c[id][1].m

\* The record of the latest call's extension before that call.
BeforeRecord == RecordOf(last.before, last.id)

\* The keys of a sequence of entries, and the merge of a map with them.
KeysOf(entries) == {entries[i][1] : i \in 1..Len(entries)}
Merged(m, entries) ==
    LET new == MapOf(entries)
    IN  [k \in DOMAIN m \cup DOMAIN new |-> IF k \in DOMAIN new THEN new[k] ELSE m[k]]

\* The size the item quota counts for one entry.
ItemSize(k, v) == ByteCount(k) + ToStringLen(v)

FailedWith(e) == ~last.res.ok /\ last.res.err = e
SetOfObject == last.op = "set" /\ last.arg.t = "object"

(***************************************************************************)
(* C1. Every persisted record satisfies the three quotas, after any        *)
(* sequence of set, remove and clear calls from the empty store: at most   *)
(* 512 keys, every key's bytes plus its value's JSON text under 8,192      *)
(* bytes, and the record's text at most 102,400 bytes.                     *)
(***************************************************************************)
C1_QuotasHold ==
    \A id \in ExtIds :
        HasRecord(conn, id) =>
            LET m == RecordOf(conn, id)
            IN  /\ MapLen(m) <= 512
                /\ \A k \in DOMAIN m : ItemSize(k, m[k]) < 8192
                /\ MapToStringLen(m) <= 102400

\* A set has just failed with MaxItems on a record that holds exactly 512 keys.
C1_Witness ==
    /\ last.op = "set" /\ FailedWith("MaxItems")
    /\ MapLen(RecordOf(conn, last.id)) = 512

(***************************************************************************)
(* C2. A set that fails with a quota error persists nothing: the record of *)
(* its extension is what it was before the call (absent stays absent, and  *)
(* a key whose old value the loop had already removed from the working     *)
(* copy keeps that value).                                                 *)
(***************************************************************************)
C2_FailedSetPersistsNothing ==
    (last.op = "set" /\ ~last.res.ok /\ last.res.err \in QuotaErrors)
        => conn[last.id] = last.before[last.id]

\* {"foo": "bar", "xé": <too big>} failed with ItemBytes on its second key, after
\* "foo", stored with another value, had passed its checks.
C2_Witness ==
    /\ SetOfObject /\ FailedWith("ItemBytes")
    /\ Len(last.arg.o) = 2 /\ last.arg.o[1][1] = kFoo
    /\ kFoo \in DOMAIN BeforeRecord
    /\ BeforeRecord[kFoo] # last.arg.o[1][2]
    /\ RecordOf(conn, last.id)[kFoo] = BeforeRecord[kFoo]

(***************************************************************************)
(* C3. A set of 512 distinct keys into a fresh record does not fail with   *)
(* MaxItems (and succeeds for the keys and values of test_quota_maxitems); *)
(* on a record of 512 keys a set of one new key fails with MaxItems; a set *)
(* whose keys are all in the record already never fails with MaxItems, in  *)
(* particular on a record of 512 keys, and also right after a set that     *)
(* failed with MaxItems.                                                   *)
(***************************************************************************)
C3_MaxItemsState ==
    SetOfObject =>
        /\ (~HasRecord(last.before, last.id) /\ Cardinality(KeysOf(last.arg.o)) = 512)
               => (~FailedWith("MaxItems") /\ (last.arg = Bulk => last.res.ok))
        /\ (MapLen(BeforeRecord) = 512 /\ Len(last.arg.o) = 1
                /\ last.arg.o[1][1] \notin DOMAIN BeforeRecord)
               => FailedWith("MaxItems")
        /\ KeysOf(last.arg.o) \subseteq DOMAIN BeforeRecord
               => ~FailedWith("MaxItems")

\* After a set that failed with MaxItems, a set of keys the record holds does not.
C3_ResetAfterFailure ==
    (last.op = "set" /\ FailedWith("MaxItems")
        /\ last'.op = "set" /\ last'.id = last.id /\ last'.arg.t = "object"
        /\ KeysOf(last'.arg.o) \subseteq DOMAIN RecordOf(conn, last.id))
    => /\ last'.res.ok \/ last'.res.err # "MaxItems"
       /\ (\A i \in 1..Len(last'.arg.o) :
               ItemSize(last'.arg.o[i][1], last'.arg.o[i][2]) < QUOTA_BYTES_PER_ITEM)
              => last'.res.ok \/ last'.res.err = "TotalBytes"

C3_MaxItems == [](C3_MaxItemsState) /\ [][C3_ResetAfterFailure]_vars

\* One of the 512 keys of a full record has just been set again, with success.
C3_Witness ==
    /\ SetOfObject /\ last.res.ok
    /\ MapLen(BeforeRecord) = 512
    /\ Len(last.arg.o) = 1 /\ last.arg.o[1][1] \in DOMAIN BeforeRecord
    /\ MapLen(RecordOf(conn, last.id)) = 512

(***************************************************************************)
(* C4. In a set that the item count cannot stop (the record and the        *)
(* incoming keys together are at most 512), an item of 8,191 bytes (key    *)
(* bytes plus the value's JSON text, a string's quotes included) is        *)
(* accepted, and the set fails with ItemBytes exactly when some incoming   *)
(* item is 8,192 bytes or more.                                            *)
(***************************************************************************)
C4_ItemBytes ==
    (SetOfObject /\ Cardinality(DOMAIN BeforeRecord \cup KeysOf(last.arg.o)) <= 512)
        => (FailedWith("ItemBytes")
               <=> \E i \in 1..Len(last.arg.o) :
                       ItemSize(last.arg.o[i][1], last.arg.o[i][2]) >= 8192)

\* A set of one item of exactly 8,191 bytes succeeded and the item is stored.
C4_Witness ==
    /\ SetOfObject /\ last.res.ok /\ Len(last.arg.o) = 1
    /\ ItemSize(last.arg.o[1][1], last.arg.o[1][2]) = 8191
    /\ last.arg.o[1][1] \in DOMAIN RecordOf(conn, last.id)

(***************************************************************************)
(* C5. The total-size quota is checked on the text of the complete merged  *)
(* map, after the per-key checks: when a per-key check fails (an incoming  *)
(* item of 8,192 bytes or more, or more than 512 keys in the merge) the    *)
(* error is MaxItems or ItemBytes, never TotalBytes; otherwise the set     *)
(* fails with TotalBytes if and only if the merged map's text is longer    *)
(* than 102,400 bytes, and succeeds if it is not.                          *)
(***************************************************************************)
C5_TotalBytes ==
    SetOfObject =>
        LET merged == Merged(BeforeRecord, last.arg.o)
            perKey == \/ MapLen(merged) > 512
                      \/ \E i \in 1..Len(last.arg.o) :
                             ItemSize(last.arg.o[i][1], last.arg.o[i][2]) >= 8192
        IN  IF perKey
            THEN ~last.res.ok /\ last.res.err \in {"MaxItems", "ItemBytes"}
            ELSE IF MapToStringLen(merged) > 102400
            THEN FailedWith("TotalBytes")
            ELSE last.res.ok

\* A set whose merged map is exactly 102,400 bytes long succeeded.
C5_Witness ==
    /\ SetOfObject /\ last.res.ok
    /\ MapToStringLen(RecordOf(conn, last.id)) = 102400
    /\ RecordOf(conn, last.id) = Merged(BeforeRecord, last.arg.o)

(***************************************************************************)
(* C6. After a successful set(id, V), V an object, get(id, null) returns   *)
(* the merge of the previous record with V: V's value for every key of V,  *)
(* the previous value for every other key of the previous record, and no   *)
(* other key.                                                              *)
(***************************************************************************)
C6_SetThenGetIsMerge ==
    (SetOfObject /\ last.res.ok)
        => get(conn, last.id, JNull).res = Ok(Merged(BeforeRecord, last.arg.o))

\* {"foo": "new", "other": "also new"} was set on a record that held "foo"
\* with another value and the key "k", which the set does not name.
C6_Witness ==
    /\ SetOfObject /\ last.res.ok /\ Len(last.arg.o) = 2
    /\ kFoo \in KeysOf(last.arg.o) /\ kK \notin KeysOf(last.arg.o)
    /\ kFoo \in DOMAIN BeforeRecord /\ kK \in DOMAIN BeforeRecord
    /\ BeforeRecord[kFoo] # RecordOf(conn, last.id)[kFoo]
    /\ RecordOf(conn, last.id)[kK] = BeforeRecord[kK]

(***************************************************************************)
(* C7. The change set of a successful set(id, V) has exactly the keys of   *)
(* V; for each, oldValue is the value stored before the call (absent if    *)
(* there was none) and newValue is V's value, also when the two are equal. *)
(***************************************************************************)
C7_SetChanges ==
    (SetOfObject /\ last.res.ok) =>
        LET new == MapOf(last.arg.o)
        IN  /\ DOMAIN last.res.val = DOMAIN new
            /\ \A k \in DOMAIN new :
                   last.res.val[k] =
                       [old_value |-> IF k \in DOMAIN BeforeRecord
                                      THEN Some(BeforeRecord[k]) ELSE None,
                        new_value |-> Some(new[k])]

\* {"foo": "bar"} was set on a record that held "foo": "bar" already, and the
\* change for "foo" is reported with oldValue = newValue.
C7_Witness ==
    /\ SetOfObject /\ last.res.ok /\ Len(last.arg.o) = 1
    /\ last.arg.o[1][1] = kFoo
    /\ kFoo \in DOMAIN BeforeRecord /\ BeforeRecord[kFoo] = last.arg.o[1][2]
    /\ kFoo \in DOMAIN last.res.val
    /\ last.res.val[kFoo].old_value = last.res.val[kFoo].new_value

(***************************************************************************)
(* C8, as stated: get with an object key specification maps every key      *)
(* that is absent from storage to its default (an explicit null included)  *)
(* and every key that is present to its stored value.                      *)
(***************************************************************************)
C8_DefaultsInRecord ==
    \A i \in 1..Len(last.arg.o) :
        LET k == last.arg.o[i][1]
            d == last.arg.o[i][2]
        IN  /\ k \in DOMAIN last.res.val
            /\ last.res.val[k] = IF k \in DOMAIN BeforeRecord THEN BeforeRecord[k] ELSE d

C8_Original ==
    (last.op = "get" /\ last.arg.t = "object") => (last.res.ok /\ C8_DefaultsInRecord)

(***************************************************************************)
(* C8, amended: when the extension has a record, get with an object key    *)
(* specification returns exactly the specification's keys, each absent key *)
(* mapped to its default (an explicit null included) and each present key  *)
(* to its stored value (a stored null included); when the extension has no *)
(* record, get returns the empty object and no default.                    *)
(***************************************************************************)
C8_GetDefaults ==
    (last.op = "get" /\ last.arg.t = "object") =>
        /\ last.res.ok
        /\ IF HasRecord(last.before, last.id)
           THEN DOMAIN last.res.val = KeysOf(last.arg.o) /\ C8_DefaultsInRecord
           ELSE last.res.val = EmptyMap

\* get(id, {"foo": null, "k": "yo"}) on a record that stores "k": null and no
\* "foo": the result has "foo": null (the default) and "k": null (the stored value).
C8_Witness ==
    /\ last.op = "get" /\ last.arg.t = "object" /\ Len(last.arg.o) = 2
    /\ HasRecord(last.before, last.id)
    /\ kFoo \notin DOMAIN BeforeRecord
    /\ kK \in DOMAIN BeforeRecord /\ BeforeRecord[kK] = JNull
    /\ MapOf(last.arg.o)[kFoo] = JNull /\ MapOf(last.arg.o)[kK] # JNull
    /\ last.res.val = MapOf(<< <<kFoo, JNull>>, <<kK, JNull>> >>)

(***************************************************************************)
(* C9. For an extension id that set, remove and clear were never called    *)
(* for, get returns the empty object, whatever the key specification.      *)
(***************************************************************************)
C9_NeverMutatedIsEmpty ==
    /\ (last.op = "get" /\ last.id \notin mutated) => last.res = Ok(EmptyMap)
    /\ \A id \in ExtIds \ mutated : ~HasRecord(conn, id)

\* get with non-null defaults on a never-mutated id, while the other id has a record.
C9_Witness ==
    /\ last.op = "get" /\ last.id \notin mutated
    /\ last.arg.t = "object" /\ \E i \in 1..Len(last.arg.o) : last.arg.o[i][2] # JNull
    /\ \E id \in ExtIds : HasRecord(conn, id)

(***************************************************************************)
(* C10. remove succeeds and returns a change set whose keys are exactly    *)
(* the selected keys present in the record, each with oldValue = the       *)
(* removed value and no newValue, and the record persisted is the old one  *)
(* without those keys; when no selected key is present, or there is no     *)
(* record, the change set is empty and the table is as it was.             *)
(***************************************************************************)
\* The keys a key specification selects.
SelectedKeys(keys) ==
    CASE keys.t = "string" -> {keys.s}
      [] keys.t = "array" -> {keys.a[i].s : i \in {j \in 1..Len(keys.a) : keys.a[j].t = "string"}}
      [] keys.t = "object" -> KeysOf(keys.o)
      [] OTHER -> {}

C10_Remove ==
    last.op = "remove" =>
        LET hit == SelectedKeys(last.arg) \cap DOMAIN BeforeRecord
        IN  /\ last.res.ok
            /\ DOMAIN last.res.val = hit
            /\ \A k \in hit :
                   last.res.val[k] = [old_value |-> Some(BeforeRecord[k]), new_value |-> None]
            /\ IF hit = {}
               THEN conn = last.before
               ELSE conn = [last.before EXCEPT ![last.id] =
                               Some(ObjectText([k \in DOMAIN BeforeRecord \ hit |->
                                                    BeforeRecord[k]]))]

\* remove(id, ["foo", "other"]) took both keys out of a record that also holds "k".
C10_Witness ==
    /\ last.op = "remove" /\ last.arg.t = "array"
    /\ DOMAIN last.res.val = {kFoo, kOther}
    /\ kK \in DOMAIN RecordOf(conn, last.id)
    /\ kFoo \notin DOMAIN RecordOf(conn, last.id)


(***************************************************************************)
(* C11. clear(id) on an existing record returns one change per stored key, *)
(* carrying the stored value as old value and no new value, and deletes    *)
(* the record; afterwards get(id, null) returns the empty object, and a    *)
(* set(id, V) that directly follows produces a record holding exactly the  *)
(* keys of V, every change of it having no old value.                      *)
(***************************************************************************)
C11_ClearState ==
    last.op = "clear" =>
        /\ last.res.ok
        /\ DOMAIN last.res.val = DOMAIN BeforeRecord
        /\ \A k \in DOMAIN BeforeRecord :
               last.res.val[k] = [old_value |-> Some(BeforeRecord[k]), new_value |-> None]
        /\ ~HasRecord(conn, last.id)
        /\ get(conn, last.id, JNull).res = Ok(EmptyMap)

C11_SetAfterClear ==
    (last.op = "clear" /\ last'.op = "set" /\ last'.id = last.id /\ last'.res.ok) =>
        LET keysOfV == IF last'.arg.t = "object" THEN KeysOf(last'.arg.o) ELSE {}
        IN  /\ HasRecord(conn', last.id)
            /\ DOMAIN RecordOf(conn', last.id) = keysOfV
            /\ DOMAIN last'.res.val = keysOfV
            /\ \A k \in keysOfV :
                   /\ last'.res.val[k].old_value = None
                   /\ last'.res.val[k].new_value = Some(RecordOf(conn', last.id)[k])

\* C11: clear returns a change per stored key and deletes the record, and a set
\* that follows it meets no old value.
C11_Clear == []C11_ClearState /\ [][C11_SetAfterClear]_vars

C11_Witness ==
    /\ last.op = "clear"
    /\ HasRecord(last.before, last.id)
    /\ Cardinality(DOMAIN BeforeRecord) >= 2
    /\ DOMAIN last.res.val = DOMAIN BeforeRecord
    /\ ~HasRecord(conn, last.id)

(***************************************************************************)
(* C12. A record goes from existing to absent only through clear: a remove *)
(* that takes the last key away leaves an existing record holding the      *)
(* empty object, and no set or get ever deletes a record.                  *)
(***************************************************************************)
C12_KeptByOthers ==
    last.op \in {"set", "get", "remove"} =>
        \A id \in ExtIds : HasRecord(last.before, id) => HasRecord(conn, id)

C12_DeletedByClear ==
    \A id \in ExtIds :
        (HasRecord(conn, id) /\ ~HasRecord(conn', id)) =>
            (last'.op = "clear" /\ last'.id = id)

\* C12: set, get and remove keep an existing record; only clear makes it absent.
C12_OnlyClearDeletes == []C12_KeptByOthers /\ [][C12_DeletedByClear]_vars

C12_Witness ==
    /\ last.op = "remove"
    /\ last.res.ok
    /\ DOMAIN BeforeRecord # {}
    /\ DOMAIN last.res.val = DOMAIN BeforeRecord
    /\ conn[last.id] = Some(ObjectText(EmptyMap))

(***************************************************************************)
(* C13. set(id, v) with v not a JSON object succeeds, returns the empty    *)
(* change set and leaves the store as it was: the record of id is the same *)
(* after the call as before it, so an absent record is still absent.       *)
(***************************************************************************)
C13_NonObjectSetIsNoOp ==
    (last.op = "set" /\ last.arg.t # "object") =>
        /\ last.res = Ok(EmptyMap)
        /\ conn = last.before

(***************************************************************************)
(* C14. With the load and the save of two mutations of one extension's     *)
(* record interleaved as separate steps, a state is reachable in which     *)
(* both calls returned success and the effect of one of them is missing    *)
(* from the final record.  When every call runs from its load to its save  *)
(* with no step of another call in between, as when it is one atomic step, *)
(* no such state is reachable: an effect is lost only to a call that saved *)
(* a record built from a row that had changed since it loaded it.          *)
(***************************************************************************)
\* The keys a returned call wrote a value for.
KeysSetBy(c) == IF c.op = "set" /\ c.arg.t = "object" THEN KeysOf(c.arg.o) ELSE {}

\* The effect of call a is in record rec after call b followed it: every key a
\* set holds a's value unless b set or removed it, every key a removed is
\* absent unless b set it.
EffectKept(a, b, rec) ==
    /\ \A k \in KeysSetBy(a) :
           \/ k \in KeysSetBy(b)
           \/ b.op = "clear"
           \/ b.op = "remove" /\ k \in SelectedKeys(b.arg)
           \/ k \in DOMAIN rec /\ rec[k] = MapOf(a.arg.o)[k]
    /\ a.op \in {"remove", "clear"} =>
           \A k \in DOMAIN a.res.val : k \in KeysSetBy(b) \/ k \notin DOMAIN rec

\* The latest two calls returned success on the same extension and the effect
\* of the earlier is not in the record.
LostUpdate ==
    /\ Len(done) = 2
    /\ done[1].id = done[2].id
    /\ done[1].res.ok /\ done[2].res.ok
    /\ ~EffectKept(done[1], done[2], RecordOf(conn, done[1].id))

\* C14: an update is lost only to a call that was interleaved with it.
C14_LostOnlyWhenInterleaved == LostUpdate => done[2].stale

C14_Witness ==
    /\ LostUpdate
    /\ done[2].stale
    /\ done[1].by # done[2].by
    /\ done[1].op = "set" /\ done[2].op = "set"
    /\ KeysSetBy(done[1]) \cap KeysSetBy(done[2]) = {}
    /\ KeysSetBy(done[2]) \subseteq DOMAIN RecordOf(conn, done[2].id)
    /\ KeysSetBy(done[1]) \cap DOMAIN RecordOf(conn, done[1].id) = {}

(***************************************************************************)
(* C15. A malformed stored record is never surfaced as an error: when the  *)
(* text stored for an extension does not parse as a JSON object, being     *)
(* valid JSON of another type or no JSON at all, get, set, remove and      *)
(* clear treat the record as absent and return no error.                   *)
(***************************************************************************)
Malformed(row) == row # None /\ row[1].t # "object"

\* The latest call made again on table c.
AgainOn(c) ==
    CASE last.op = "set" -> set(c, last.id, last.arg).res
      [] last.op = "get" -> get(c, last.id, last.arg).res
      [] last.op = "remove" -> remove(c, last.id, last.arg).res
      [] last.op = "clear" -> clear(c, last.id).res
      [] OTHER -> last.res

\* C15: a call on a malformed row returns what it returns with no row, and no error.
C15_MalformedIsAbsent ==
    (last.op # "none" /\ Malformed(last.before[last.id])) =>
        /\ last.res.ok
        /\ last.res = AgainOn([last.before EXCEPT ![last.id] = None])

(***************************************************************************)
(* C16. No operation spans more than one extension's record: a call on     *)
(* extension A, whether it succeeds or fails, leaves the record of every   *)
(* other extension B as it was, and its result does not depend on what B's *)
(* record holds.                                                           *)
(***************************************************************************)
\* What the other extensions' rows are replaced by to see whether the result follows them.
OtherRows == {None, Some(ObjectText(MapOf(<< <<kFoo, JString(sYo)>>, <<kK, JNull>> >>)))}

\* C16: the other extensions' rows are as before, and the result is the same
\* whatever they hold.
C16_OtherRecordsUntouched ==
    /\ \A id \in ExtIds \ {last.id} : conn[id] = last.before[id]
    /\ \A row \in OtherRows :
           AgainOn([id \in ExtIds |-> IF id = last.id THEN last.before[id] ELSE row]) = last.res

C16_Witness ==
    /\ last.op \in {"set", "clear"}
    /\ last.id = "xyz"
    /\ last.res.ok
    /\ last.before["xyz"] # conn["xyz"]
    /\ DOMAIN RecordOf(conn, "x") # {}
    /\ conn["x"] = last.before["x"]
    /\ last.before["x"] # last.before["xyz"]

(***************************************************************************)
(* C17. Within set the checks of each key are made one key at a time and   *)
(* the first failing check decides the error; for one key the count check  *)
(* comes before the size check and counts the working map after that key   *)
(* was taken out of it.  So a new, oversized key set on a record of 512    *)
(* keys fails with MaxItems and not ItemBytes, and an oversized value for  *)
(* a key already among the 512 fails with ItemBytes.                       *)
(***************************************************************************)
\* The keys of the working map when entry i is reached, none having failed before.
WorkingKeys(entries, i) == DOMAIN BeforeRecord \cup {entries[j][1] : j \in 1..(i - 1)}
CountFails(entries, i) ==
    Cardinality(WorkingKeys(entries, i) \ {entries[i][1]}) >= MAX_ITEMS
SizeFails(entries, i) == ItemSize(entries[i][1], entries[i][2]) >= QUOTA_BYTES_PER_ITEM
EntryFails(entries, i) == CountFails(entries, i) \/ SizeFails(entries, i)

\* C17: the error of a set is that of the first entry that fails, MaxItems before
\* ItemBytes within it.
C17_FirstFailingCheckDecides ==
    SetOfObject =>
        LET entries == last.arg.o
            failing == {i \in 1..Len(entries) : EntryFails(entries, i)}
        IN  /\ failing # {} =>
                   LET first == CHOOSE i \in failing : \A j \in failing : i <= j
                   IN  FailedWith(IF CountFails(entries, first) THEN "MaxItems" ELSE "ItemBytes")
            /\ failing = {} => ~FailedWith("MaxItems") /\ ~FailedWith("ItemBytes")
            /\ (Len(entries) = 1 /\ Cardinality(DOMAIN BeforeRecord) = MAX_ITEMS
                    /\ SizeFails(entries, 1)) =>
                   IF entries[1][1] \in DOMAIN BeforeRecord
                   THEN FailedWith("ItemBytes") ELSE FailedWith("MaxItems")

C17_Witness ==
    /\ SetOfObject
    /\ Cardinality(DOMAIN BeforeRecord) = MAX_ITEMS
    /\ Len(last.arg.o) = 2
    /\ last.arg.o[1][1] \in DOMAIN BeforeRecord
    /\ SizeFails(last.arg.o, 1)
    /\ last.arg.o[2][1] \notin DOMAIN BeforeRecord
    /\ FailedWith("ItemBytes")
    /\ conn = last.before

(***************************************************************************)
(* C18. get only reads: whatever the key specification and the state of    *)
(* the store, no record differs after a get from what it was before, the   *)
(* same get made again right after returns the same result, and a key      *)
(* named twice in an array specification is in the result once, with its   *)
(* stored value.                                                           *)
(***************************************************************************)
C18_GetOnlyReads ==
    last.op = "get" =>
        /\ conn = last.before
        /\ get(conn, last.id, last.arg).res = last.res
        /\ (last.arg.t = "array" /\ HasRecord(last.before, last.id)) =>
               LET found == SelectedKeys(last.arg) \cap DOMAIN BeforeRecord
               IN  last.res = Ok([k \in found |-> BeforeRecord[k]])

C18_Witness ==
    /\ last.op = "get"
    /\ last.arg.t = "array"
    /\ \E i, j \in 1..Len(last.arg.a) :
           /\ i < j
           /\ last.arg.a[i] = last.arg.a[j]
           /\ last.arg.a[i].t = "string"
           /\ last.arg.a[i].s \in DOMAIN BeforeRecord
           /\ last.res.val = (last.arg.a[i].s :> BeforeRecord[last.arg.a[i].s])
    /\ Cardinality(DOMAIN BeforeRecord) >= 2
    /\ conn = last.before

(***************************************************************************)
(* C19. The three quotas hold for every persisted record also when the     *)
(* load and save steps of concurrent calls interleave: whatever the order  *)
(* of the steps, no record has more than 512 keys, an item of 8,192 bytes  *)
(* or more, or a text longer than 102,400 bytes.                           *)
(***************************************************************************)
C19_QuotasHoldInRace ==
    \A id \in ExtIds :
        LET m == RecordOf(conn, id)
        IN  /\ Cardinality(DOMAIN m) <= MAX_ITEMS
            /\ ~\E k \in DOMAIN m : ItemSize(k, m[k]) >= QUOTA_BYTES_PER_ITEM
            /\ MapToStringLen(m) <= QUOTA_BYTES

\* Two callers each added a key of their own to a record one key short of the
\* limit, both succeeded, and the record holds exactly MAX_ITEMS keys.
C19_Witness ==
    /\ Len(done) = 2
    /\ done[1].by # done[2].by
    /\ done[1].res.ok /\ done[2].res.ok
    /\ done[2].stale
    /\ done[1].op = "set" /\ done[2].op = "set"
    /\ KeysSetBy(done[1]) \cap DOMAIN AlmostFull = {}
    /\ KeysSetBy(done[2]) \cap DOMAIN AlmostFull = {}
    /\ KeysSetBy(done[1]) # KeysSetBy(done[2])
    /\ Cardinality(DOMAIN RecordOf(conn, done[2].id)) = MAX_ITEMS

(***************************************************************************)
(* C20. A key specification that is null, a boolean or a number selects no *)
(* key in remove: remove(id, null) returns the empty change set and leaves *)
(* the record as it was, whereas get(id, null) returns the whole stored    *)
(* object.  In get a boolean or a number returns the empty object also     *)
(* when the record holds keys.                                             *)
(***************************************************************************)
SelectsNothing(keys) == keys.t \in {"null", "bool", "number"}

\* C20: null, booleans and numbers select nothing in remove; in get only null
\* selects the whole record.
C20_NoKeySelected ==
    /\ (last.op = "remove" /\ SelectsNothing(last.arg)) =>
           /\ last.res = Ok(EmptyMap)
           /\ conn = last.before
    /\ (last.op = "get" /\ last.arg = JNull) => last.res = Ok(BeforeRecord)
    /\ (last.op = "get" /\ last.arg.t \in {"bool", "number"}) => last.res = Ok(EmptyMap)

C20_Witness ==
    /\ last.op = "remove"
    /\ last.arg = JNull
    /\ last.res = Ok(EmptyMap)
    /\ DOMAIN BeforeRecord # {}
    /\ conn = last.before
    /\ get(conn, last.id, JNull).res = Ok(BeforeRecord)
    /\ get(conn, last.id, JBool(TRUE)).res = Ok(EmptyMap)

====
